---- MODULE Spec2Model ----
(***************************************************************************)
(* Model of the relayer's order synchronisation jobs:                      *)
(*   - src/src/jobs/opensea-sync/utils.ts   fetchOrders  (offset paging)   *)
(*   - src/src/jobs/seaport-sync/utils.ts   fetchOrders  (cursor drain)    *)
(*                                          fetchAllOrders (one page)      *)
(* Strings are sequences of character codes, so that toLowerCase is a real *)
(* conversion.  An absent value (undefined / null / void) is the empty     *)
(* sequence <<>>, a present value v is <<v>>.                              *)
(***************************************************************************)
EXTENDS Integers, Sequences, FiniteSets, Bags, TLC

\* ------------------------------------------------------------- bounds
\* Largest number of orders the offset marketplace lists.
MaxUpstream == 3
\* The cursor marketplace lists k full pages plus r orders, k <= MaxFullPages,
\* r <= MaxPartial.
MaxFullPages == 1
MaxPartial == 1
\* Pages of at most MaxShuffle orders are explored under every completion
\* order of their parse operations; longer pages in input order only.
MaxShuffle == 2
\* A drain is followed for at most MaxDrainPages page fetches.
MaxDrainPages == 4

\* ------------------------------------------------- program constants
maxOrdersToFetch == 1000
DefaultLimit == 50
SeaportLimit == 50
pLimit == 20

\* The two invocation slots: an invocation, and a second one that re-runs it
\* (Spec) or overlaps it (SpecRace).
Procs == {1, 2}

Null == -1

VARIABLES
  upstream,         \* what the two marketplaces list
  store,            \* table orders_v23: a set of rows
  queue,            \* relay-orders queue: a bag of envelopes
  entry,            \* entry[p]: the entry point invocation p runs
  args,             \* args[p]: its arguments
  pc,               \* pc[p]: the await the invocation is suspended at
  offset, cursor, done, numOrders, lastCreatedDate,   \* loop locals
  orders, parsedOrders, values, next,                 \* page locals
  status, ret, err, \* how the invocation ended
  calls             \* calls[p]: the collaborator calls it issued so far

vars == <<upstream, store, queue, entry, args, pc, offset, cursor, done,
          numOrders, lastCreatedDate, orders, parsedOrders, values, next,
          status, ret, err, calls>>

\* ------------------------------------------------------------ strings
Min(a, b) == IF a < b THEN a ELSE b

RECURSIVE Digits(_)
Digits(n) == IF n < 10 THEN <<48 + n>> ELSE Digits(n \div 10) \o <<48 + (n % 10)>>

\* String.prototype.toLowerCase on ASCII
ToLowerCase(s) == [k \in DOMAIN s |-> IF s[k] \in 65..90 THEN s[k] + 32 ELSE s[k]]

\* new Date(created_date): the timestamp the date string denotes
RECURSIVE NewDate(_)
NewDate(s) ==
  IF s = <<>> THEN 0 ELSE 10 * NewDate(SubSeq(s, 1, Len(s) - 1)) + (s[Len(s)] - 48)

Range(s) == {s[k] : k \in DOMAIN s}

\* The option values of a sequence of options, in order.
Flatten(opts) ==
  LET some == SelectSeq([k \in DOMAIN opts |-> k], LAMBDA k : opts[k] # <<>>)
  IN [j \in DOMAIN some |-> opts[some[j]][1]]

BagOfSeq(s) == [e \in Range(s) |-> Cardinality({k \in DOMAIN s : s[k] = e})]

\* ------------------------------------------------- the marketplaces
\* The i-th newest order the offset marketplace lists (1 is the newest).
OpenSeaOrderAt(i) ==
  [prefixed_hash |-> <<IF i % 2 = 1 THEN 72 ELSE 104>> \o Digits(i),
   target        |-> <<84>> \o Digits(i),
   maker         |-> [address |-> <<77>> \o Digits(i)],
   created_date  |-> Digits(9000 - i),
   schema        |-> IF i % 3 = 2 THEN "UNKNOWN" ELSE "ERC721",
   salt          |-> i % 2,
   asset         |-> <<[address |-> <<67>> \o Digits(i)]>>,
   nonce         |-> <<>>]

\* GET orders?offset=..&limit=..&order_direction=desc: response.data.orders
OpenSeaPage(n, off, limit) ==
  [k \in 1..Min(limit, n - off) |-> OpenSeaOrderAt(off + k)]

\* The i-th newest order the cursor marketplace lists.
SeaportOrderAt(i) ==
  [order_hash    |-> <<IF i % 2 = 1 THEN 83 ELSE 115>> \o Digits(i),
   maker         |-> [address |-> <<77>> \o Digits(i)],
   created_date  |-> Digits(9000 - i),
   protocol_data |-> [parameters |-> [offer   |-> <<[token |-> <<75>> \o Digits(i)]>>,
                                      zone    |-> <<90>> \o Digits(i),
                                      counter |-> i % 3]]]

\* A cursor is the number of orders to skip; no cursor starts at the newest.
CursorStart(c) == IF c = Null THEN 0 ELSE c

\* GET orders?cursor=..&limit=..: response.data.orders
SeaportPage(up, c, limit) ==
  [k \in 1..Min(limit, up.seaport - CursorStart(c)) |-> SeaportOrderAt(CursorStart(c) + k)]

\* ... and response.data.next: a token while orders remain; after the last
\* order either none, or (up.tailToken) a token that leads to an empty page.
SeaportNext(up, c, limit) ==
  LET end == CursorStart(c) + limit IN
  IF end < up.seaport \/ (end = up.seaport /\ up.tailToken) THEN end ELSE Null

\* ------------------------------------------------------ the parsers
\* parseOpenSeaOrder: the normalized order, or nothing
ParseOpenSeaOrder(order) ==
  IF order.schema = "ERC721" /\ order.asset # <<>>
  THEN <<[params   |-> [kind |-> order.schema, hash |-> order.prefixed_hash,
                        nonce |-> order.salt],
          contract |-> order.asset[1].address]>>
  ELSE <<>>

\* seaport.parseSeaportOrder: the normalized order, or nothing
ParseSeaportOrder(order) ==
  IF order.protocol_data.parameters.counter # 2
  THEN <<[params   |-> [hash |-> order.order_hash,
                        counter |-> order.protocol_data.parameters.counter],
          contract |-> <<67>> \o Tail(order.order_hash)]>>
  ELSE <<>>

\* parsed.getInfo(): a normalized order carries its contract address
GetInfo(parsed) == <<[contract |-> parsed.contract]>>

\* The orders in which the parse operations of a page of n orders can
\* complete: at most pLimit are in flight, so the k-th to complete is one of
\* the first pLimit + k - 1.
Completions(n) ==
  IF n <= MaxShuffle
  THEN {f \in [1..n -> 1..n] :
          /\ \A a, b \in 1..n : a # b => f[a] # f[b]
          /\ \A k \in 1..n : f[k] <= pLimit + k - 1}
  ELSE {[k \in 1..n |-> k]}

\* Mutant of PushedValues: an order whose parse returns nothing gets no row.
PushedValuesParsedOnly(h, f) ==
  LET some == SelectSeq([k \in DOMAIN f |-> f[k]], LAMBDA k : h[k].parsed # <<>>)
  IN [j \in DOMAIN some |-> h[some[j]].value]

\* What the handlers of a page push, h[k] being what the handler of order k
\* pushes and f the order the handlers complete in: values.push(..) and
\* parsedOrders.push(parsed).
PushedValues(h, f) == [k \in DOMAIN f |-> h[f[k]].value]

PushedParsed(h, f) == Flatten([k \in DOMAIN f |-> h[f[k]].parsed])

\* ------------------------------------------------------- the store
\* The column of orders_v23 that ON CONFLICT arbitrates on.
ConflictKey(row) == row.hash

\* Mutant of BulkInsert: no conflict arbitration, every row is inserted.
BulkInsertAll(table, rows) ==
  [table |-> table \cup Range(rows), result |-> Len(rows)]

\* Mutant of BulkInsert: ON CONFLICT DO UPDATE, the last row of a key wins.
BulkInsertOverwrite(table, rows) ==
  LET keys == {ConflictKey(rows[k]) : k \in DOMAIN rows}
      final == {k \in DOMAIN rows :
                  \A j \in (k + 1)..Len(rows) : ConflictKey(rows[j]) # ConflictKey(rows[k])}
  IN [table |-> {x \in table : ConflictKey(x) \notin keys} \cup {rows[k] : k \in final},
      result |-> Len(rows)]

\* INSERT ... ON CONFLICT DO NOTHING RETURNING 1: a row is inserted unless
\* the table, or an earlier row of the statement, holds its key; result is
\* the number of rows returned.
BulkInsert(table, rows) ==
  LET fresh == {k \in DOMAIN rows :
                  /\ \A x \in table : ConflictKey(x) # ConflictKey(rows[k])
                  /\ \A j \in 1..(k - 1) : ConflictKey(rows[j]) # ConflictKey(rows[k])}
  IN [table |-> table \cup {rows[k] : k \in fresh}, result |-> Cardinality(fresh)]

Hashes(rows) == [k \in DOMAIN rows |-> rows[k].hash]

\* -------------------------------------------------- the call record
\* The calls of one kind in a call record.
CallsOf(cs, op) == SelectSeq(cs, LAMBDA c : c.op = op)

NoRequest == [offset |-> Null, limit |-> Null, cursor |-> Null,
              listedAfter |-> <<>>, listedBefore |-> <<>>]

\* op: fetch, enqueue, insert or sleep; ok: it resolved; req: a fetch's request;
\* n: the orders, rows or envelopes it carried; new: the rows an insert
\* returned; keys: the hashes of its rows or envelopes; next: the next-page
\* token of a fetch's response.
Call(op, ok, req, n, new, keys, nxt) ==
  [op |-> op, ok |-> ok, req |-> req, n |-> n, new |-> new, keys |-> keys,
   next |-> nxt]

\* ===================================================================
\*  opensea-sync/utils.ts  fetchOrders
\* ===================================================================
\* Date.now() / 1000 of line 31, the cache breaker of a once fetch
Now == 9999

\* buildFetchOrdersURL(...) of lines 28-35
OpenSeaRequest(a, off) ==
  [offset |-> off, limit |-> a.limit, cursor |-> Null,
   listedAfter  |-> IF a.once THEN <<>> ELSE <<a.listedAfter>>,
   listedBefore |-> IF a.once THEN <<Now>> ELSE <<a.listedBefore>>]

\* Mutant of OpenSeaHandleOrder: the target is stored as received.
OpenSeaHandleOrderRawTarget(order, once) ==
  LET parsed == ParseOpenSeaOrder(order)
      info == IF parsed # <<>> THEN GetInfo(parsed[1]) ELSE <<>>
      orderTarget == IF info # <<>> THEN info[1].contract ELSE order.target
      nonce == IF parsed # <<>> /\ parsed[1].params.nonce # 0
               THEN <<parsed[1].params.nonce>> ELSE order.nonce
      data == [order EXCEPT !.nonce = nonce, !.asset = <<>>]
  IN [parsed |-> parsed,
      data   |-> data,
      value  |-> [hash       |-> order.prefixed_hash,
                  target     |-> orderTarget,
                  maker      |-> ToLowerCase(order.maker.address),
                  created_at |-> NewDate(order.created_date),
                  data       |-> data,
                  delayed    |-> <<~once>>,
                  source     |-> "opensea"]]

\* handleOrder of lines 56-84: what it pushes for one order
OpenSeaHandleOrder(order, once) ==
  LET parsed == ParseOpenSeaOrder(order)
      info == IF parsed # <<>> THEN GetInfo(parsed[1]) ELSE <<>>
      orderTarget == IF info # <<>> THEN info[1].contract ELSE order.target
      nonce == IF parsed # <<>> /\ parsed[1].params.nonce # 0
               THEN <<parsed[1].params.nonce>> ELSE order.nonce
      data == [order EXCEPT !.nonce = nonce, !.asset = <<>>]
  IN [parsed |-> parsed,
      data   |-> data,
      value  |-> [hash       |-> order.prefixed_hash,
                  target     |-> ToLowerCase(orderTarget),
                  maker      |-> ToLowerCase(order.maker.address),
                  created_at |-> NewDate(order.created_date),
                  data       |-> data,
                  delayed    |-> <<~once>>,
                  source     |-> "opensea"]]

\* lines 89-96: the envelopes of the page's parsed orders
OpenSeaEnvelopes(parsed) ==
  [k \in DOMAIN parsed |-> [kind |-> "wyvern-v2.3", data |-> parsed[k].params]]

\* Mutant of OpenSeaPageEnds: the once flag is not consulted.
OpenSeaPageEndsIgnoringOnce(once, n, limit) == n < limit

\* Mutant of OpenSeaPageEnds: <= for <, a full page ends the loop too.
OpenSeaPageEndsInclusive(once, n, limit) == once \/ n <= limit

\* lines 121-124: the page ends the loop
OpenSeaPageEnds(once, n, limit) == once \/ n < limit

\* Mutant of OpenSeaNextOffset: the offset is never advanced.
OpenSeaNextOffsetStuck(off, once, n, limit) == off

\* lines 125-127: the offset of the next fetch
OpenSeaNextOffset(off, once, n, limit) ==
  IF OpenSeaPageEnds(once, n, limit) THEN off ELSE off + limit

\* Mutant of OpenSeaCeiling: > for >=.
OpenSeaCeilingStrict(backfill, num) == ~backfill /\ num > maxOrdersToFetch

\* lines 129-132: a realtime sync has fetched its ceiling
OpenSeaCeiling(backfill, num) == ~backfill /\ num >= maxOrdersToFetch

\* Mutant of OpenSeaLastCreatedDate: an empty page resets the date.
OpenSeaLastCreatedDateResets(last, page) ==
  IF Len(page) # 0 THEN page[Len(page)].created_date ELSE <<>>

\* lines 134-136
OpenSeaLastCreatedDate(last, page) ==
  IF Len(page) # 0 THEN page[Len(page)].created_date ELSE last

\* Mutant of OpenSeaCatchReturns: the error is swallowed in every mode.
OpenSeaCatchAlwaysReturns(backfill) == TRUE

\* Mutant of OpenSeaCatchReturns: the error is rethrown in every mode.
OpenSeaCatchNeverReturns(backfill) == FALSE

\* lines 142-153: the catch block ends the invocation
OpenSeaCatchReturns(backfill) == ~backfill

\* Mutant of OpenSeaCatch: a failed insert is rethrown in every mode.
OpenSeaCatchInsertRaises(p, cause, call) ==
  /\ pc' = [pc EXCEPT ![p] = "done"]
  /\ err' = [err EXCEPT ![p] = cause]
  /\ calls' = [calls EXCEPT ![p] = Append(@, call)]
  /\ IF OpenSeaCatchReturns(args[p].backfill) /\ cause # "insert"
     THEN /\ status' = [status EXCEPT ![p] = "returned"]
          /\ ret' = [ret EXCEPT ![p] = <<lastCreatedDate[p]>>]
     ELSE /\ status' = [status EXCEPT ![p] = "raised"]
          /\ ret' = [ret EXCEPT ![p] = <<>>]

OpenSeaCatch(p, cause, call) ==
  /\ pc' = [pc EXCEPT ![p] = "done"]
  /\ err' = [err EXCEPT ![p] = cause]
  /\ calls' = [calls EXCEPT ![p] = Append(@, call)]
  /\ IF OpenSeaCatchReturns(args[p].backfill)
     THEN /\ status' = [status EXCEPT ![p] = "returned"]
          /\ ret' = [ret EXCEPT ![p] = <<lastCreatedDate[p]>>]
     ELSE /\ status' = [status EXCEPT ![p] = "raised"]
          /\ ret' = [ret EXCEPT ![p] = <<>>]

\* lines 156-160
OpenSeaReturn(p, last) ==
  /\ pc' = [pc EXCEPT ![p] = "done"]
  /\ status' = [status EXCEPT ![p] = "returned"]
  /\ ret' = [ret EXCEPT ![p] = <<last>>]

\* lines 11-26: the call and its locals.  Slots are taken in order.
OpenSeaCall(p, after, before, backfill, once, off, limit) ==
  /\ pc[p] = "idle"
  /\ \A q \in Procs : q < p => pc[q] # "idle"
  /\ args' = [args EXCEPT ![p] =
                [listedAfter |-> after, listedBefore |-> before,
                 backfill |-> backfill, once |-> once, offset |-> off,
                 limit |-> limit, cursor |-> Null,
                 fromTimestamp |-> <<>>, toTimestamp |-> <<>>]]
  /\ offset' = [offset EXCEPT ![p] = off]
  /\ numOrders' = [numOrders EXCEPT ![p] = 0]
  /\ lastCreatedDate' = [lastCreatedDate EXCEPT ![p] = <<>>]
  /\ done' = [done EXCEPT ![p] = FALSE]
  /\ entry' = [entry EXCEPT ![p] = "opensea"]
  /\ pc' = [pc EXCEPT ![p] = "fetch"]
  /\ UNCHANGED <<upstream, store, queue, cursor, orders, parsedOrders, values,
                 next, status, ret, err, calls>>

\* A call with a small page size
OpenSeaStart(p) ==
  \E backfill \in BOOLEAN, once \in BOOLEAN, off \in {0, 1}, limit \in {2} :
    OpenSeaCall(p, 8000, 0, backfill, once, off, limit)

\* lines 27-54: the page request and its response, or its failure
OpenSeaFetch(p) ==
  /\ entry[p] = "opensea" /\ pc[p] = "fetch"
  /\ LET req == OpenSeaRequest(args[p], offset[p])
         page == OpenSeaPage(upstream.wyvern, offset[p], args[p].limit)
     IN \/ /\ orders' = [orders EXCEPT ![p] = page]
           /\ parsedOrders' = [parsedOrders EXCEPT ![p] = <<>>]
           /\ values' = [values EXCEPT ![p] = <<>>]
           /\ calls' = [calls EXCEPT ![p] =
                          Append(@, Call("fetch", TRUE, req, Len(page), 0, <<>>, Null))]
           /\ pc' = [pc EXCEPT ![p] = "parse"]
           /\ UNCHANGED <<status, ret, err>>
        \/ /\ OpenSeaCatch(p, "fetch", Call("fetch", FALSE, req, 0, 0, <<>>, Null))
           /\ UNCHANGED <<orders, parsedOrders, values>>
  /\ UNCHANGED <<upstream, store, queue, entry, args, offset, cursor, done,
                 numOrders, lastCreatedDate, next>>

\* lines 56-87: the parse fan-out, in one of its completion orders
OpenSeaHandleOrders(p) ==
  /\ entry[p] = "opensea" /\ pc[p] = "parse"
  /\ \E f \in Completions(Len(orders[p])) :
       LET h == [k \in DOMAIN orders[p] |-> OpenSeaHandleOrder(orders[p][k], args[p].once)]
       IN /\ values' = [values EXCEPT ![p] = PushedValues(h, f)]
          /\ parsedOrders' = [parsedOrders EXCEPT ![p] = PushedParsed(h, f)]
          /\ orders' = [orders EXCEPT ![p] = [k \in DOMAIN h |-> h[k].data]]
  /\ pc' = [pc EXCEPT ![p] = "enqueue"]
  /\ UNCHANGED <<upstream, store, queue, entry, args, offset, cursor, done,
                 numOrders, lastCreatedDate, next, status, ret, err, calls>>

\* Mutant of OpenSeaEnqueue: the batch is enqueued without the length test.
OpenSeaEnqueueAlways(p) ==
  /\ entry[p] = "opensea" /\ pc[p] = "enqueue"
  /\ LET batch == OpenSeaEnvelopes(parsedOrders[p])
         keys == [k \in DOMAIN batch |-> batch[k].data.hash]
     IN \/ /\ queue' = queue (+) BagOfSeq(batch)
           /\ calls' = [calls EXCEPT ![p] =
                Append(@, Call("enqueue", TRUE, NoRequest, Len(batch), 0, keys, Null))]
           /\ pc' = [pc EXCEPT ![p] = "insert"]
           /\ UNCHANGED <<status, ret, err>>
        \/ /\ OpenSeaCatch(p, "enqueue",
                           Call("enqueue", FALSE, NoRequest, Len(batch), 0, keys, Null))
           /\ UNCHANGED queue
  /\ UNCHANGED <<upstream, store, entry, args, offset, cursor, done, numOrders,
                 lastCreatedDate, orders, parsedOrders, values, next>>

\* lines 89-97: addToRelayOrdersQueue
OpenSeaEnqueue(p) ==
  /\ entry[p] = "opensea" /\ pc[p] = "enqueue"
  /\ LET batch == OpenSeaEnvelopes(parsedOrders[p])
         keys == [k \in DOMAIN batch |-> batch[k].data.hash]
     IN IF Len(parsedOrders[p]) = 0
        THEN /\ pc' = [pc EXCEPT ![p] = "insert"]
             /\ UNCHANGED <<queue, status, ret, err, calls>>
        ELSE \/ /\ queue' = queue (+) BagOfSeq(batch)
                /\ calls' = [calls EXCEPT ![p] =
                     Append(@, Call("enqueue", TRUE, NoRequest, Len(batch), 0, keys, Null))]
                /\ pc' = [pc EXCEPT ![p] = "insert"]
                /\ UNCHANGED <<status, ret, err>>
             \/ /\ OpenSeaCatch(p, "enqueue",
                                Call("enqueue", FALSE, NoRequest, Len(batch), 0, keys, Null))
                /\ UNCHANGED queue
  /\ UNCHANGED <<upstream, store, entry, args, offset, cursor, done, numOrders,
                 lastCreatedDate, orders, parsedOrders, values, next>>

\* lines 117-141 up to the sleep: the loop's bookkeeping after a page
OpenSeaAfterPage(p) ==
  LET a == args[p]
      n == Len(orders[p])
      num == numOrders[p] + n
      finished == OpenSeaPageEnds(a.once, n, a.limit) \/ OpenSeaCeiling(a.backfill, num)
      last == OpenSeaLastCreatedDate(lastCreatedDate[p], orders[p])
  IN /\ numOrders' = [numOrders EXCEPT ![p] = num]
     /\ offset' = [offset EXCEPT ![p] = OpenSeaNextOffset(@, a.once, n, a.limit)]
     /\ done' = [done EXCEPT ![p] = finished]
     /\ lastCreatedDate' = [lastCreatedDate EXCEPT ![p] = last]
     /\ IF ~a.once
        THEN /\ pc' = [pc EXCEPT ![p] = "sleep"]
             /\ UNCHANGED <<status, ret>>
        ELSE IF finished
        THEN OpenSeaReturn(p, last)
        ELSE /\ pc' = [pc EXCEPT ![p] = "fetch"]
             /\ UNCHANGED <<status, ret>>
     /\ UNCHANGED err

\* lines 99-136: the bulk insert, then the loop's bookkeeping
OpenSeaInsert(p) ==
  /\ entry[p] = "opensea" /\ pc[p] = "insert"
  /\ LET ins == BulkInsert(store, values[p])
         keys == Hashes(values[p])
     IN IF Len(values[p]) = 0
        THEN /\ OpenSeaAfterPage(p)
             /\ UNCHANGED <<store, calls>>
        ELSE \/ /\ store' = ins.table
                /\ calls' = [calls EXCEPT ![p] =
                     Append(@, Call("insert", TRUE, NoRequest, Len(keys), ins.result, keys, Null))]
                /\ OpenSeaAfterPage(p)
             \/ /\ OpenSeaCatch(p, "insert",
                                Call("insert", FALSE, NoRequest, Len(keys), 0, keys, Null))
                /\ UNCHANGED <<store, numOrders, offset, done, lastCreatedDate>>
  /\ UNCHANGED <<upstream, queue, entry, args, cursor, orders, parsedOrders,
                 values, next>>

\* lines 138-141 and the loop test of line 27, then lines 156-160
OpenSeaSleep(p) ==
  /\ entry[p] = "opensea" /\ pc[p] = "sleep"
  /\ calls' = [calls EXCEPT ![p] = Append(@, Call("sleep", TRUE, NoRequest, 0, 0, <<>>, Null))]
  /\ IF done[p]
     THEN OpenSeaReturn(p, lastCreatedDate[p])
     ELSE /\ pc' = [pc EXCEPT ![p] = "fetch"]
          /\ UNCHANGED <<status, ret>>
  /\ UNCHANGED <<upstream, store, queue, entry, args, offset, cursor, done,
                 numOrders, lastCreatedDate, orders, parsedOrders, values, next, err>>

\* A call with the default page size, or a page size that does not divide the
\* ceiling
OpenSeaStartDefault(p) ==
  \E backfill \in BOOLEAN, once \in BOOLEAN, limit \in {DefaultLimit, 300} :
    OpenSeaCall(p, 8000, 0, backfill, once, 0, limit)

\* ===================================================================
\*  seaport-sync/utils.ts  fetchOrders (the continuous drain)
\* ===================================================================
\* Mutant of SeaportRequest: the cursor is left out of the URL.
SeaportRequestNoCursor(c, from, to) ==
  [offset |-> Null, limit |-> SeaportLimit, cursor |-> Null,
   listedAfter |-> from, listedBefore |-> to]

\* seaport.buildFetchOrdersURL(...) of lines 21-26 and 130-137
SeaportRequest(c, from, to) ==
  [offset |-> Null, limit |-> SeaportLimit, cursor |-> c,
   listedAfter |-> from, listedBefore |-> to]

\* lines 49-58: the row handleOrder pushes for one order
SeaportRow(order, parsed) ==
  LET info == IF parsed # <<>> THEN GetInfo(parsed[1]) ELSE <<>>
      contract == IF info # <<>> THEN ToLowerCase(info[1].contract) ELSE <<>>
  IN [hash       |-> ToLowerCase(order.order_hash),
      target     |-> IF contract # <<>> THEN contract
                     ELSE ToLowerCase(order.protocol_data.parameters.offer[1].token),
      maker      |-> ToLowerCase(order.maker.address),
      created_at |-> NewDate(order.created_date),
      data       |-> order.protocol_data,
      delayed    |-> <<>>,
      source     |-> "opensea"]

\* handleOrder of lines 42-59
SeaportHandleOrder(order) ==
  LET parsed == ParseSeaportOrder(order)
  IN [parsed |-> parsed, value |-> SeaportRow(order, parsed)]

\* lines 89-96 and 194-201: the envelopes of the page's parsed orders
SeaportEnvelopes(parsed) ==
  [k \in DOMAIN parsed |-> [kind |-> "seaport", data |-> parsed[k].params]]

\* Mutant of SeaportCaughtUp: the test is inverted.
SeaportCaughtUpInverted(result) == result # 0

\* lines 74-86: an insert that returned no row ends the drain
SeaportCaughtUp(result) == result = 0

\* Mutant of SeaportCatch: the error is swallowed and the call returns.
SeaportCatchSwallows(p, cause, call) ==
  /\ pc' = [pc EXCEPT ![p] = "done"]
  /\ err' = [err EXCEPT ![p] = cause]
  /\ calls' = [calls EXCEPT ![p] = Append(@, call)]
  /\ status' = [status EXCEPT ![p] = "returned"]
  /\ ret' = [ret EXCEPT ![p] = <<>>]

\* lines 100-102 and 210-212: the catch block rethrows
SeaportCatch(p, cause, call) ==
  /\ pc' = [pc EXCEPT ![p] = "done"]
  /\ err' = [err EXCEPT ![p] = cause]
  /\ calls' = [calls EXCEPT ![p] = Append(@, call)]
  /\ status' = [status EXCEPT ![p] = "raised"]
  /\ ret' = [ret EXCEPT ![p] = <<>>]

\* lines 12-18
SeaportStart(p) ==
  /\ pc[p] = "idle"
  /\ \A q \in Procs : q < p => pc[q] # "idle"
  /\ args' = [args EXCEPT ![p] =
                [listedAfter |-> 0, listedBefore |-> 0, backfill |-> FALSE,
                 once |-> FALSE, offset |-> 0, limit |-> SeaportLimit, cursor |-> Null,
                 fromTimestamp |-> <<>>, toTimestamp |-> <<>>]]
  /\ cursor' = [cursor EXCEPT ![p] = Null]
  /\ done' = [done EXCEPT ![p] = FALSE]
  /\ entry' = [entry EXCEPT ![p] = "seaport"]
  /\ pc' = [pc EXCEPT ![p] = "fetch"]
  /\ UNCHANGED <<upstream, store, queue, offset, numOrders, lastCreatedDate,
                 orders, parsedOrders, values, next, status, ret, err, calls>>

\* lines 20-40: the page request and its response, or its failure
SeaportFetch(p) ==
  /\ entry[p] = "seaport" /\ pc[p] = "fetch"
  /\ Len(CallsOf(calls[p], "fetch")) < MaxDrainPages
  /\ LET req == SeaportRequest(cursor[p], <<>>, <<>>)
         page == SeaportPage(upstream, cursor[p], SeaportLimit)
         nxt == SeaportNext(upstream, cursor[p], SeaportLimit)
     IN \/ /\ orders' = [orders EXCEPT ![p] = page]
           /\ parsedOrders' = [parsedOrders EXCEPT ![p] = <<>>]
           /\ cursor' = [cursor EXCEPT ![p] = nxt]
           /\ values' = [values EXCEPT ![p] = <<>>]
           /\ calls' = [calls EXCEPT ![p] =
                          Append(@, Call("fetch", TRUE, req, Len(page), 0, <<>>, nxt))]
           /\ pc' = [pc EXCEPT ![p] = "parse"]
           /\ UNCHANGED <<status, ret, err>>
        \/ /\ SeaportCatch(p, "fetch", Call("fetch", FALSE, req, 0, 0, <<>>, Null))
           /\ UNCHANGED <<orders, parsedOrders, cursor, values>>
  /\ UNCHANGED <<upstream, store, queue, entry, args, offset, done, numOrders,
                 lastCreatedDate, next>>

\* lines 42-62: the parse fan-out, in one of its completion orders
SeaportHandleOrders(p) ==
  /\ entry[p] = "seaport" /\ pc[p] = "parse"
  /\ \E f \in Completions(Len(orders[p])) :
       LET h == [k \in DOMAIN orders[p] |-> SeaportHandleOrder(orders[p][k])]
       IN /\ values' = [values EXCEPT ![p] = PushedValues(h, f)]
          /\ parsedOrders' = [parsedOrders EXCEPT ![p] = PushedParsed(h, f)]
  /\ pc' = [pc EXCEPT ![p] = "insert"]
  /\ UNCHANGED <<upstream, store, queue, entry, args, offset, cursor, done,
                 numOrders, lastCreatedDate, orders, next, status, ret, err, calls>>

\* lines 64-87: the bulk insert and the stopping rule
SeaportInsert(p) ==
  /\ entry[p] = "seaport" /\ pc[p] = "insert"
  /\ LET ins == BulkInsert(store, values[p])
         keys == Hashes(values[p])
     IN IF Len(values[p]) = 0
        THEN /\ pc' = [pc EXCEPT ![p] = "enqueue"]
             /\ UNCHANGED <<store, done, status, ret, err, calls>>
        ELSE \/ /\ store' = ins.table
                /\ calls' = [calls EXCEPT ![p] =
                     Append(@, Call("insert", TRUE, NoRequest, Len(keys), ins.result, keys, Null))]
                /\ done' = [done EXCEPT ![p] = @ \/ SeaportCaughtUp(ins.result)]
                /\ pc' = [pc EXCEPT ![p] = "enqueue"]
                /\ UNCHANGED <<status, ret, err>>
             \/ /\ SeaportCatch(p, "insert",
                                Call("insert", FALSE, NoRequest, Len(keys), 0, keys, Null))
                /\ UNCHANGED <<store, done>>
  /\ UNCHANGED <<upstream, queue, entry, args, offset, cursor, numOrders,
                 lastCreatedDate, orders, parsedOrders, values, next>>

\* Mutant of SeaportEnqueue: a page whose insert returned no row is not
\* enqueued.
SeaportEnqueueUnlessCaughtUp(p) ==
  /\ entry[p] = "seaport" /\ pc[p] = "enqueue"
  /\ LET batch == SeaportEnvelopes(parsedOrders[p])
         keys == [k \in DOMAIN batch |-> batch[k].data.hash]
         loop == IF done[p]
                 THEN /\ pc' = [pc EXCEPT ![p] = "done"]
                      /\ status' = [status EXCEPT ![p] = "returned"]
                      /\ ret' = [ret EXCEPT ![p] = <<>>]
                 ELSE /\ pc' = [pc EXCEPT ![p] = "fetch"]
                      /\ UNCHANGED <<status, ret>>
     IN IF Len(parsedOrders[p]) = 0 \/ done[p]
        THEN /\ loop
             /\ UNCHANGED <<queue, err, calls>>
        ELSE \/ /\ queue' = queue (+) BagOfSeq(batch)
                /\ calls' = [calls EXCEPT ![p] =
                     Append(@, Call("enqueue", TRUE, NoRequest, Len(batch), 0, keys, Null))]
                /\ loop
                /\ UNCHANGED err
             \/ /\ SeaportCatch(p, "enqueue",
                                Call("enqueue", FALSE, NoRequest, Len(batch), 0, keys, Null))
                /\ UNCHANGED queue
  /\ UNCHANGED <<upstream, store, entry, args, offset, cursor, done, numOrders,
                 lastCreatedDate, orders, parsedOrders, values, next>>

\* lines 89-99, then the loop test of line 20 and the return of line 104
SeaportEnqueue(p) ==
  /\ entry[p] = "seaport" /\ pc[p] = "enqueue"
  /\ LET batch == SeaportEnvelopes(parsedOrders[p])
         keys == [k \in DOMAIN batch |-> batch[k].data.hash]
         loop == IF done[p]
                 THEN /\ pc' = [pc EXCEPT ![p] = "done"]
                      /\ status' = [status EXCEPT ![p] = "returned"]
                      /\ ret' = [ret EXCEPT ![p] = <<>>]
                 ELSE /\ pc' = [pc EXCEPT ![p] = "fetch"]
                      /\ UNCHANGED <<status, ret>>
     IN IF Len(parsedOrders[p]) = 0
        THEN /\ loop
             /\ UNCHANGED <<queue, err, calls>>
        ELSE \/ /\ queue' = queue (+) BagOfSeq(batch)
                /\ calls' = [calls EXCEPT ![p] =
                     Append(@, Call("enqueue", TRUE, NoRequest, Len(batch), 0, keys, Null))]
                /\ loop
                /\ UNCHANGED err
             \/ /\ SeaportCatch(p, "enqueue",
                                Call("enqueue", FALSE, NoRequest, Len(batch), 0, keys, Null))
                /\ UNCHANGED queue
  /\ UNCHANGED <<upstream, store, entry, args, offset, cursor, done, numOrders,
                 lastCreatedDate, orders, parsedOrders, values, next>>

\* ===================================================================
\*  seaport-sync/utils.ts  fetchAllOrders (the bounded window fetch)
\* ===================================================================
\* lines 160-169: the row handleOrder pushes for one order
SeaportAllRow(order, parsed) ==
  LET info == IF parsed # <<>> THEN GetInfo(parsed[1]) ELSE <<>>
      contract == IF info # <<>> THEN info[1].contract ELSE <<>>
  IN [hash       |-> order.order_hash,
      target     |-> ToLowerCase(IF contract # <<>> THEN contract
                                 ELSE order.protocol_data.parameters.offer[1].token),
      maker      |-> ToLowerCase(order.maker.address),
      created_at |-> NewDate(order.created_date),
      data       |-> order.protocol_data,
      delayed    |-> <<>>,
      source     |-> "opensea"]

\* handleOrder of lines 153-170
SeaportAllHandleOrder(order) ==
  LET parsed == ParseSeaportOrder(order)
  IN [parsed |-> parsed, value |-> SeaportAllRow(order, parsed)]

\* lines 106-137
SeaportAllStart(p) ==
  /\ pc[p] = "idle"
  /\ \A q \in Procs : q < p => pc[q] # "idle"
  /\ \E from \in {<<8000>>}, to \in {<<>>}, c \in {Null, SeaportLimit} :
       /\ args' = [args EXCEPT ![p] =
                     [listedAfter |-> 0, listedBefore |-> 0, backfill |-> FALSE,
                      once |-> FALSE, offset |-> 0, limit |-> SeaportLimit, cursor |-> c,
                      fromTimestamp |-> from, toTimestamp |-> to]]
       /\ cursor' = [cursor EXCEPT ![p] = c]
  /\ entry' = [entry EXCEPT ![p] = "seaportAll"]
  /\ pc' = [pc EXCEPT ![p] = "fetch"]
  /\ UNCHANGED <<upstream, store, queue, offset, done, numOrders, lastCreatedDate,
                 orders, parsedOrders, values, next, status, ret, err, calls>>

\* lines 139-151: the page request and its response, or its failure
SeaportAllFetch(p) ==
  /\ entry[p] = "seaportAll" /\ pc[p] = "fetch"
  /\ LET req == SeaportRequest(cursor[p], args[p].fromTimestamp, args[p].toTimestamp)
         page == SeaportPage(upstream, cursor[p], SeaportLimit)
         nxt == SeaportNext(upstream, cursor[p], SeaportLimit)
     IN \/ /\ orders' = [orders EXCEPT ![p] = page]
           /\ parsedOrders' = [parsedOrders EXCEPT ![p] = <<>>]
           /\ next' = [next EXCEPT ![p] = nxt]
           /\ values' = [values EXCEPT ![p] = <<>>]
           /\ calls' = [calls EXCEPT ![p] =
                          Append(@, Call("fetch", TRUE, req, Len(page), 0, <<>>, nxt))]
           /\ pc' = [pc EXCEPT ![p] = "parse"]
           /\ UNCHANGED <<status, ret, err>>
        \/ /\ SeaportCatch(p, "fetch", Call("fetch", FALSE, req, 0, 0, <<>>, Null))
           /\ UNCHANGED <<orders, parsedOrders, next, values>>
  /\ UNCHANGED <<upstream, store, queue, entry, args, offset, cursor, done,
                 numOrders, lastCreatedDate>>

\* lines 153-173: the parse fan-out, in one of its completion orders
SeaportAllHandleOrders(p) ==
  /\ entry[p] = "seaportAll" /\ pc[p] = "parse"
  /\ \E f \in Completions(Len(orders[p])) :
       LET h == [k \in DOMAIN orders[p] |-> SeaportAllHandleOrder(orders[p][k])]
       IN /\ values' = [values EXCEPT ![p] = PushedValues(h, f)]
          /\ parsedOrders' = [parsedOrders EXCEPT ![p] = PushedParsed(h, f)]
  /\ pc' = [pc EXCEPT ![p] = "insert"]
  /\ UNCHANGED <<upstream, store, queue, entry, args, offset, cursor, done,
                 numOrders, lastCreatedDate, orders, next, status, ret, err, calls>>

\* lines 175-192: the bulk insert
SeaportAllInsert(p) ==
  /\ entry[p] = "seaportAll" /\ pc[p] = "insert"
  /\ LET ins == BulkInsert(store, values[p])
         keys == Hashes(values[p])
     IN IF Len(values[p]) = 0
        THEN /\ pc' = [pc EXCEPT ![p] = "enqueue"]
             /\ UNCHANGED <<store, status, ret, err, calls>>
        ELSE \/ /\ store' = ins.table
                /\ calls' = [calls EXCEPT ![p] =
                     Append(@, Call("insert", TRUE, NoRequest, Len(keys), ins.result, keys, Null))]
                /\ pc' = [pc EXCEPT ![p] = "enqueue"]
                /\ UNCHANGED <<status, ret, err>>
             \/ /\ SeaportCatch(p, "insert",
                                Call("insert", FALSE, NoRequest, Len(keys), 0, keys, Null))
                /\ UNCHANGED store
  /\ UNCHANGED <<upstream, queue, entry, args, offset, cursor, done, numOrders,
                 lastCreatedDate, orders, parsedOrders, values, next>>

\* lines 194-209: the enqueue, then the return of the next-page token
SeaportAllEnqueue(p) ==
  /\ entry[p] = "seaportAll" /\ pc[p] = "enqueue"
  /\ LET batch == SeaportEnvelopes(parsedOrders[p])
         keys == [k \in DOMAIN batch |-> batch[k].data.hash]
         return == /\ pc' = [pc EXCEPT ![p] = "done"]
                   /\ status' = [status EXCEPT ![p] = "returned"]
                   /\ ret' = [ret EXCEPT ![p] = <<next[p]>>]
     IN IF Len(parsedOrders[p]) = 0
        THEN /\ return
             /\ UNCHANGED <<queue, err, calls>>
        ELSE \/ /\ queue' = queue (+) BagOfSeq(batch)
                /\ calls' = [calls EXCEPT ![p] =
                     Append(@, Call("enqueue", TRUE, NoRequest, Len(batch), 0, keys, Null))]
                /\ return
                /\ UNCHANGED err
             \/ /\ SeaportCatch(p, "enqueue",
                                Call("enqueue", FALSE, NoRequest, Len(batch), 0, keys, Null))
                /\ UNCHANGED queue
  /\ UNCHANGED <<upstream, store, entry, args, offset, cursor, done, numOrders,
                 lastCreatedDate, orders, parsedOrders, values, next>>

\* ===================================================================
\*  The specifications
\* ===================================================================
NoArgs == [listedAfter |-> 0, listedBefore |-> 0, backfill |-> FALSE, once |-> FALSE,
           offset |-> 0, limit |-> 0, cursor |-> Null,
           fromTimestamp |-> <<>>, toTimestamp |-> <<>>]

\* What the cursor marketplace may list: full pages plus a partial one.
SeaportListings ==
  {k * SeaportLimit + r : k \in 0..MaxFullPages, r \in 0..MaxPartial}

Upstreams ==
  {u \in [wyvern : 0..MaxUpstream, seaport : SeaportListings, tailToken : BOOLEAN] :
     u.tailToken => (u.seaport > 0 /\ u.seaport % SeaportLimit = 0)}

InitLocals ==
  /\ store = {}
  /\ queue = EmptyBag
  /\ entry = [p \in Procs |-> "none"]
  /\ args = [p \in Procs |-> NoArgs]
  /\ pc = [p \in Procs |-> "idle"]
  /\ offset = [p \in Procs |-> 0]
  /\ cursor = [p \in Procs |-> Null]
  /\ done = [p \in Procs |-> FALSE]
  /\ numOrders = [p \in Procs |-> 0]
  /\ lastCreatedDate = [p \in Procs |-> <<>>]
  /\ orders = [p \in Procs |-> <<>>]
  /\ parsedOrders = [p \in Procs |-> <<>>]
  /\ values = [p \in Procs |-> <<>>]
  /\ next = [p \in Procs |-> Null]
  /\ status = [p \in Procs |-> "none"]
  /\ ret = [p \in Procs |-> <<>>]
  /\ err = [p \in Procs |-> "none"]
  /\ calls = [p \in Procs |-> <<>>]

\* The invocations of Spec all call one entry point, which reads one
\* marketplace: the listing of the other is left empty.
Init ==
  /\ upstream \in {u \in Upstreams : u.wyvern = 0 \/ u.seaport = 0}
  /\ InitLocals

\* No invocation is under way: the scheduler starts one at a time.
Quiet == \A q \in Procs : pc[q] \in {"idle", "done"}

\* The second invocation calls the entry point of the first again, with the
\* same arguments.
Again(p) == p = 1 \/ (entry'[p] = entry[1] /\ args'[p] = args[1])

Next ==
  \E p \in Procs :
    \/ Quiet /\ OpenSeaStart(p) /\ Again(p)
    \/ OpenSeaFetch(p)
    \/ OpenSeaHandleOrders(p)
    \/ OpenSeaEnqueue(p)
    \/ OpenSeaInsert(p)
    \/ OpenSeaSleep(p)
    \/ Quiet /\ SeaportStart(p) /\ Again(p)
    \/ SeaportFetch(p)
    \/ SeaportHandleOrders(p)
    \/ SeaportInsert(p)
    \/ SeaportEnqueue(p)
    \/ Quiet /\ SeaportAllStart(p) /\ Again(p)
    \/ SeaportAllFetch(p)
    \/ SeaportAllHandleOrders(p)
    \/ SeaportAllInsert(p)
    \/ SeaportAllEnqueue(p)

Spec == Init /\ [][Next]_vars

\* Overlapping invocations: the scheduler does not wait for the one under way.
NextRace ==
  \E p \in Procs :
    \/ OpenSeaStart(p)
    \/ OpenSeaFetch(p)
    \/ OpenSeaHandleOrders(p)
    \/ OpenSeaEnqueue(p)
    \/ OpenSeaInsert(p)
    \/ OpenSeaSleep(p)
    \/ SeaportStart(p)
    \/ SeaportFetch(p)
    \/ SeaportHandleOrders(p)
    \/ SeaportInsert(p)
    \/ SeaportEnqueue(p)
    \/ SeaportAllStart(p)
    \/ SeaportAllFetch(p)
    \/ SeaportAllHandleOrders(p)
    \/ SeaportAllInsert(p)
    \/ SeaportAllEnqueue(p)

\* Overlapping invocations run against listings of less than one cursor page.
InitRace ==
  /\ upstream \in {u \in Upstreams : u.seaport < SeaportLimit}
  /\ InitLocals

SpecRace == InitRace /\ [][NextRace]_vars

\* One offset-mode invocation with pages of the default size against a
\* listing around the realtime ceiling.
CeilingListings ==
  {maxOrdersToFetch - 1, maxOrdersToFetch, maxOrdersToFetch + 300}

InitCeiling ==
  /\ upstream \in {[wyvern |-> n, seaport |-> 0, tailToken |-> FALSE] :
                      n \in CeilingListings}
  /\ InitLocals

NextCeiling ==
  \/ OpenSeaStartDefault(1)
  \/ OpenSeaFetch(1)
  \/ OpenSeaHandleOrders(1)
  \/ OpenSeaEnqueue(1)
  \/ OpenSeaInsert(1)
  \/ OpenSeaSleep(1)

SpecCeiling == InitCeiling /\ [][NextCeiling]_vars

\* ===================================================================
\*  Properties
\* ===================================================================
Fetches(p) == CallsOf(calls[p], "fetch")

Last(s) == s[Len(s)]

OpenSea(p) == entry[p] = "opensea"

\* The orders the offset marketplace returned to a request.
RawOpenSeaPage(req) == OpenSeaPage(upstream.wyvern, req.offset, req.limit)

\* The creation date of the last order of the most recent non-empty page
\* among the fetches fs, or the empty string.
RECURSIVE LastDateOf(_)
LastDateOf(fs) ==
  IF fs = <<>> THEN <<>>
  ELSE IF Last(fs).ok /\ Last(fs).n > 0
       THEN Last(RawOpenSeaPage(Last(fs).req)).created_date
       ELSE LastDateOf(SubSeq(fs, 1, Len(fs) - 1))

\* C1: in an offset-mode invocation with once = false, the i-th fetch asks for
\* offset0 + (i-1)*limit; every fetch but the last returned a full page (no
\* page is fetched after one that returned fewer orders than limit); and
\* after a processed full page of a backfill the loop is not done and stands
\* at offset + limit.
C1_OffsetPaging ==
  \A p \in Procs :
    (OpenSea(p) /\ ~args[p].once) =>
      LET f == Fetches(p)
          a == args[p]
      IN /\ \A i \in DOMAIN f : f[i].req.offset = a.offset + (i - 1) * a.limit
         /\ \A i \in 1..(Len(f) - 1) : f[i].ok /\ f[i].n = a.limit
         /\ (/\ a.backfill /\ f # <<>> /\ pc[p] \in {"sleep", "fetch"}
             /\ Last(f).n = a.limit)
            => /\ ~done[p]
               /\ offset[p] = a.offset + Len(f) * a.limit

\* C1 witness: a backfill that fetched a full page, then a short one at
\* offset + limit, and returned.
C1_Witness ==
  \E p \in Procs :
    /\ OpenSea(p) /\ ~args[p].once /\ args[p].backfill /\ args[p].offset = 1
    /\ Len(Fetches(p)) = 2
    /\ Fetches(p)[1].n = args[p].limit /\ Fetches(p)[2].n < args[p].limit
    /\ status[p] = "returned"

\* A step of an offset-mode invocation.
OpenSeaStep(p) ==
  \/ OpenSeaFetch(p)
  \/ OpenSeaHandleOrders(p)
  \/ OpenSeaEnqueue(p)
  \/ OpenSeaInsert(p)
  \/ OpenSeaSleep(p)

\* C2: a realtime offset-mode invocation always terminates: it issues a fetch
\* only while fewer than maxOrdersToFetch orders were fetched, so it fetches
\* at most ceil(maxOrdersToFetch / limit) pages (20 with limit 50) even when
\* every page is full, and until it has ended it can always take its next
\* step.
C2_RealtimeCeiling ==
  \A p \in Procs :
    (OpenSea(p) /\ ~args[p].backfill) =>
      LET f == Fetches(p)
          a == args[p]
      IN /\ (Len(f) - 1) * a.limit < maxOrdersToFetch
         /\ (a.limit = DefaultLimit => Len(f) <= 20)
         /\ (pc[p] = "fetch" => numOrders[p] < maxOrdersToFetch)
         /\ (pc[p] = "sleep" /\ numOrders[p] >= maxOrdersToFetch => done[p])
         /\ (pc[p] # "done" => ENABLED OpenSeaStep(p))
         /\ (pc[p] = "done" => status[p] = "returned")

\* C2 witness: a realtime invocation that returned after 20 full pages of 50.
C2_Witness ==
  \E p \in Procs :
    /\ OpenSea(p) /\ ~args[p].backfill /\ args[p].limit = DefaultLimit
    /\ Len(Fetches(p)) = 20 /\ Last(Fetches(p)).n = DefaultLimit
    /\ numOrders[p] = maxOrdersToFetch
    /\ status[p] = "returned" /\ err[p] = "none"

\* C3: when a page fetch of an offset-mode invocation fails, a backfill
\* raises and returns nothing; a realtime sync returns the creation date of
\* the last order of the last non-empty page fetched before, and the failed
\* fetch is its last call.
C3_FetchFailure ==
  \A p \in Procs :
    (OpenSea(p) /\ err[p] = "fetch") =>
      /\ pc[p] = "done"
      /\ Last(calls[p]).op = "fetch" /\ ~Last(calls[p]).ok
      /\ IF args[p].backfill
         THEN status[p] = "raised" /\ ret[p] = <<>>
         ELSE status[p] = "returned" /\ ret[p] = <<LastDateOf(Fetches(p))>>

\* C3 witness: a realtime sync whose second fetch failed and that returned
\* the date of its first page.
C3_Witness ==
  \E p \in Procs :
    /\ OpenSea(p) /\ err[p] = "fetch" /\ ~args[p].backfill
    /\ Len(Fetches(p)) = 2
    /\ status[p] = "returned" /\ ret[p] # <<<<>>>>

\* C4: an offset-mode invocation with once = true issues one page fetch and
\* no inter-page delay, whatever the page size and whatever backfill.
C4_Once ==
  \A p \in Procs :
    (OpenSea(p) /\ args[p].once) =>
      /\ Len(Fetches(p)) <= 1
      /\ CallsOf(calls[p], "sleep") = <<>>
      /\ (pc[p] # "fetch" => Len(Fetches(p)) = 1)

\* C4 witness: a once backfill that fetched a full page and returned.
C4_Witness ==
  \E p \in Procs :
    /\ OpenSea(p) /\ args[p].once /\ args[p].backfill
    /\ Len(Fetches(p)) = 1 /\ Fetches(p)[1].n = args[p].limit
    /\ status[p] = "returned" /\ err[p] = "none"

Seaport(p) == entry[p] = "seaport"

\* An insert that returned no row.
ZeroInsert(c) == c.op = "insert" /\ c.ok /\ c.new = 0

CaughtUp(p) == \E i \in DOMAIN calls[p] : ZeroInsert(calls[p][i])

\* The paging of a drain: it starts with no cursor; each later fetch uses the
\* next token of the response before it; it goes on fetching until an insert
\* returns no row, and after that insert it neither fetches nor inserts.
DrainPaging(p) ==
  LET f == Fetches(p)
      cs == calls[p]
  IN /\ (f # <<>> => f[1].req.cursor = Null)
     /\ \A i \in 1..(Len(f) - 1) : f[i].ok /\ f[i + 1].req.cursor = f[i].next
     /\ \A i \in DOMAIN cs :
          ZeroInsert(cs[i]) => \A j \in (i + 1)..Len(cs) : cs[j].op = "enqueue"
     /\ done[p] = CaughtUp(p)
     /\ (pc[p] = "fetch" => ~done[p])
     /\ (status[p] = "returned" => CaughtUp(p))

\* C5 as stated: the first page whose insert returns no row ends the
\* invocation with a normal return.
C5_Original ==
  \A p \in Procs :
    Seaport(p) =>
      /\ DrainPaging(p)
      /\ (CaughtUp(p) /\ pc[p] = "done" => status[p] = "returned")

\* C5 amended: the first page whose insert returns no row ends the drain with
\* no further fetch, and the invocation returns normally unless the enqueue
\* of that page's parsed orders, which follows the insert, fails.
C5_Drain ==
  \A p \in Procs :
    Seaport(p) =>
      /\ DrainPaging(p)
      /\ (CaughtUp(p) /\ pc[p] = "done" =>
            \/ status[p] = "returned" /\ err[p] = "none"
            \/ status[p] = "raised" /\ err[p] = "enqueue")

\* C5 witness: a drain that fetched three pages, found nothing new on the
\* third and returned.
C5_Witness ==
  \E p \in Procs :
    /\ Seaport(p) /\ Len(Fetches(p)) = 3 /\ CaughtUp(p)
    /\ Fetches(p)[2].req.cursor = SeaportLimit
    /\ status[p] = "returned"

\* An invocation that ran to its end with no failure.
CleanRun(p) == status[p] = "returned" /\ err[p] = "none"

\* The second invocation re-runs the first, which ran to its end: same entry
\* point, same arguments, and the store holds every row the first submitted.
Rerun ==
  /\ CleanRun(1)
  /\ entry[2] = entry[1] /\ args[2] = args[1]
  /\ \A i \in DOMAIN calls[1] :
       calls[1][i].op = "insert" => Range(calls[1][i].keys) \subseteq {r.hash : r \in store}

C6_RerunState ==
  Rerun =>
    /\ \A i \in DOMAIN calls[2] : calls[2][i].op = "insert" => calls[2][i].new = 0
    /\ (Seaport(2) =>
          /\ Len(Fetches(2)) <= 1
          /\ (pc[2] = "done" =>
                /\ Len(Fetches(2)) = 1
                /\ (status[2] = "returned" \/ ~Last(calls[2]).ok)))

\* C6: a re-run of an entry point with the same arguments, after a run that
\* ran to its end, inserts no row and leaves the store unchanged; a re-run of
\* the drain fetches one page and then returns, unless a call of it fails.
C6_Idempotent == []C6_RerunState /\ [][Rerun' => store' = store]_vars

\* C6 witness: a re-run of the drain that submitted a page of rows, inserted
\* none and returned after one fetch.
C6_Witness ==
  /\ Rerun /\ Seaport(2) /\ status[2] = "returned"
  /\ \E i \in DOMAIN calls[2] : calls[2][i].op = "insert" /\ calls[2][i].n > 0

\* C7: under overlapping invocations the store holds at most one row per
\* hash, and no row of the store is ever changed or removed.
C7_Dedup ==
  /\ [](\A r1, r2 \in store : r1.hash = r2.hash => r1 = r2)
  /\ [][store \subseteq store']_vars

\* C7 witness: two invocations under way at once, one of which submitted rows
\* the store already held.
C7_Witness ==
  /\ \A p \in Procs : pc[p] \notin {"idle", "done"}
  /\ \E p \in Procs : \E i \in DOMAIN calls[p] :
       calls[p][i].op = "insert" /\ calls[p][i].ok /\ calls[p][i].new < calls[p][i].n

\* The calls of one kind that resolved.
Resolved(p, op) == SelectSeq(calls[p], LAMBDA c : c.op = op /\ c.ok)

\* The last page an invocation received.
OkFetches(p) == SelectSeq(Fetches(p), LAMBDA c : c.ok)

RawPage(p) ==
  LET req == Last(OkFetches(p)).req
  IN IF OpenSea(p) THEN RawOpenSeaPage(req)
     ELSE SeaportPage(upstream, req.cursor, req.limit)

RawHash(p, o) == IF OpenSea(p) THEN o.prefixed_hash ELSE o.order_hash

Parsed(p, o) == IF OpenSea(p) THEN ParseOpenSeaOrder(o) ELSE ParseSeaportOrder(o)

\* The fallback contract address of a raw order.
Fallback(p, o) ==
  IF OpenSea(p) THEN o.target ELSE o.protocol_data.parameters.offer[1].token

\* The target the claim expects of a row, from the parse outcome and the
\* fallback address of its raw order.
ExpectedTarget(parsed, fallback) ==
  IF parsed = <<>> THEN ToLowerCase(fallback) ELSE ToLowerCase(parsed[1].contract)

\* The fan-out of the last page has just completed: its rows are built.
RowsBuilt(p) == pc[p] = (IF OpenSea(p) THEN "enqueue" ELSE "insert")

\* The pairs of lower-cased hash and target the claim expects of the rows of
\* a page, and those of the rows built.
ExpectedRows(p) ==
  {<<ToLowerCase(RawHash(p, o)), ExpectedTarget(Parsed(p, o), Fallback(p, o))>> :
     o \in Range(RawPage(p))}

BuiltRows(p) == {<<ToLowerCase(r.hash), r.target>> : r \in Range(values[p])}

\* C8: the row built for a raw order has the lower-cased contract address of
\* the parsed order as its target when parse succeeds, and the lower-cased
\* fallback address of the raw order when parse returns nothing; the rows a
\* resolved insert submits are the rows built.
C8_Fallback ==
  \A p \in Procs :
    /\ RowsBuilt(p) => BuiltRows(p) = ExpectedRows(p)
    /\ (calls[p] # <<>> /\ Last(calls[p]).op = "insert" /\ Last(calls[p]).ok) =>
         {r \in store : r.hash \in Range(Last(calls[p]).keys)} \subseteq
           {r \in store : <<ToLowerCase(r.hash), r.target>> \in ExpectedRows(p)}

\* C8 witness: a stored page with a row of a parsed order and a row of an
\* order whose parse returned nothing.
C8_Witness ==
  \E p \in Procs :
    /\ OpenSea(p) /\ Len(values[p]) = 2 /\ pc[p] = "sleep"
    /\ \E k \in DOMAIN RawPage(p) : Parsed(p, RawPage(p)[k]) = <<>>
    /\ \E k \in DOMAIN RawPage(p) : Parsed(p, RawPage(p)[k]) # <<>>
    /\ \A j \in DOMAIN values[p] : values[p][j] \in store

LowerAll(hs) == [k \in DOMAIN hs |-> ToLowerCase(hs[k])]

\* The hashes of a page's raw orders, and of those whose parse succeeds.
RawHashes(p) == [k \in DOMAIN RawPage(p) |-> RawHash(p, RawPage(p)[k])]

ParsedHashes(p) ==
  LET raw == RawPage(p)
      some == SelectSeq([k \in DOMAIN raw |-> k], LAMBDA k : Parsed(p, raw[k]) # <<>>)
  IN [j \in DOMAIN some |-> RawHash(p, raw[some[j]])]

HandleStep(p) ==
  OpenSeaHandleOrders(p) \/ SeaportHandleOrders(p) \/ SeaportAllHandleOrders(p)

\* C9: whatever the parse outcomes and the completion order, the batch
\* submitted to the store holds one row per raw order of the page, the batch
\* enqueued holds the orders whose parse succeeded, the fan-out always
\* completes, and an invocation raises only on a failed call.
C9_ParseFailure ==
  \A p \in Procs :
    /\ (pc[p] = "parse" => ENABLED HandleStep(p))
    /\ (status[p] = "raised" => ~Last(calls[p]).ok)
    /\ RowsBuilt(p) =>
         /\ BagOfSeq(LowerAll(Hashes(values[p]))) = BagOfSeq(LowerAll(RawHashes(p)))
         /\ BagOfSeq([k \in DOMAIN parsedOrders[p] |-> parsedOrders[p][k].params.hash])
              = BagOfSeq(ParsedHashes(p))
    /\ (calls[p] # <<>> /\ Last(calls[p]).op = "insert") =>
         BagOfSeq(LowerAll(Last(calls[p]).keys)) = BagOfSeq(LowerAll(RawHashes(p)))
    /\ (calls[p] # <<>> /\ Last(calls[p]).op = "enqueue") =>
         BagOfSeq(Last(calls[p]).keys) = BagOfSeq(ParsedHashes(p))

\* C9 witness: a page of two orders, one of which does not parse, whose
\* handlers completed out of order, was stored and enqueued, and the
\* invocation went on to return.
C9_Witness ==
  \E p \in Procs :
    /\ OkFetches(p) # <<>> /\ Len(RawPage(p)) = 2 /\ Len(ParsedHashes(p)) = 1
    /\ Len(values[p]) = 2 /\ LowerAll(Hashes(values[p])) # LowerAll(RawHashes(p))
    /\ Resolved(p, "insert") # <<>> /\ Last(Resolved(p, "insert")).n = 2
    /\ Resolved(p, "enqueue") # <<>> /\ Last(Resolved(p, "enqueue")).n = 1
    /\ status[p] = "returned" /\ err[p] = "none"

\* C10: a page-fetch error in the drain or in the window fetch raises with
\* no return value, and the rows inserted and orders enqueued by the earlier
\* pages of the invocation are in the store and in the queue.
C10_CursorFailure ==
  \A p \in Procs :
    (entry[p] \in {"seaport", "seaportAll"} /\ err[p] = "fetch") =>
      /\ pc[p] = "done" /\ status[p] = "raised" /\ ret[p] = <<>>
      /\ \A i \in DOMAIN Resolved(p, "insert") :
           Range(Resolved(p, "insert")[i].keys) \subseteq {r.hash : r \in store}
      /\ \A i \in DOMAIN Resolved(p, "enqueue") :
           Range(Resolved(p, "enqueue")[i].keys) \subseteq
             {e.data.hash : e \in BagToSet(queue)}

\* C10 witness: a drain whose second fetch failed after its first page was
\* inserted and enqueued.
C10_Witness ==
  \E p \in Procs :
    /\ Seaport(p) /\ err[p] = "fetch" /\ Len(Fetches(p)) = 2
    /\ Resolved(p, "insert") # <<>> /\ Resolved(p, "insert")[1].new > 0
    /\ Resolved(p, "enqueue") # <<>>


SeaportAll(p) == entry[p] = "seaportAll"

\* C11: a window fetch issues exactly one page fetch, whose request carries
\* the caller's from/to bounds and cursor; when no call fails it returns, and
\* what it returns is the next-page token of that response, whatever the
\* page held and whatever the insert returned.
C11_WindowFetch ==
  \A p \in Procs :
    SeaportAll(p) =>
      LET f == Fetches(p)
          a == args[p]
      IN /\ Len(f) <= 1
         /\ (pc[p] # "fetch" => Len(f) = 1)
         /\ \A i \in DOMAIN f :
              f[i].req = [offset |-> Null, limit |-> SeaportLimit, cursor |-> a.cursor,
                          listedAfter |-> a.fromTimestamp,
                          listedBefore |-> a.toTimestamp]
         /\ (pc[p] = "done" /\ err[p] = "none" => status[p] = "returned")
         /\ (status[p] = "returned" =>
               /\ f[1].ok
               /\ ret[p] = <<SeaportNext(upstream, a.cursor, SeaportLimit)>>
               /\ ret[p] = <<f[1].next>>)

\* C11 witness: a window fetch with no cursor that submitted a page of rows the
\* store already held and returned a next-page token.
C11_Witness ==
  \E p \in Procs :
    /\ SeaportAll(p) /\ args[p].cursor = Null /\ status[p] = "returned"
    /\ \E i \in DOMAIN calls[p] : ZeroInsert(calls[p][i]) /\ calls[p][i].n = SeaportLimit
    /\ ret[p] = <<SeaportLimit>>

\* The fetches of an invocation whose page was processed to its end: no call
\* issued for the page failed.
CompletedFetches(p) ==
  LET cs == calls[p]
      completed(i) ==
        /\ cs[i].op = "fetch" /\ cs[i].ok
        /\ \A j \in (i + 1)..Len(cs) :
             (\A k \in (i + 1)..j : cs[k].op # "fetch") => cs[j].ok
      at == SelectSeq([i \in DOMAIN cs |-> i], completed)
  IN [j \in DOMAIN at |-> cs[at[j]]]

\* C12: whenever an offset-mode invocation returns, normally or through the
\* realtime error path, it returns the creation date of the last order of
\* the most recent non-empty page it processed to the end, or the empty
\* string when there is none.
C12_ReturnValue ==
  \A p \in Procs :
    (OpenSea(p) /\ status[p] = "returned") =>
      ret[p] = <<LastDateOf(CompletedFetches(p))>>

\* C12 witness: a realtime sync whose second page was not empty and failed to
\* insert, and which returned the date of its first page.
C12_Witness ==
  \E p \in Procs :
    /\ OpenSea(p) /\ ~args[p].backfill /\ err[p] = "insert"
    /\ Len(Fetches(p)) = 2 /\ Fetches(p)[2].ok /\ Fetches(p)[2].n > 0
    /\ status[p] = "returned"
    /\ ret[p] = <<Last(RawOpenSeaPage(Fetches(p)[1].req)).created_date>>


\* C13 as stated: every row submitted to the store carries a lower-cased
\* hash, so no two rows of the store differ only in the letter case of their
\* hash.
C13_LowerCasedHash ==
  /\ \A p \in Procs : \A i \in DOMAIN calls[p] :
       calls[p][i].op = "insert" =>
         \A k \in DOMAIN calls[p][i].keys :
           calls[p][i].keys[k] = ToLowerCase(calls[p][i].keys[k])
  /\ \A r1, r2 \in store : ToLowerCase(r1.hash) = ToLowerCase(r2.hash) => r1 = r2

\* An invocation that ended on the failure of a call of one kind: the failed
\* call is its last, so nothing was retried and nothing followed.
EndedOn(p, op) ==
  /\ pc[p] = "done"
  /\ Last(calls[p]).op = op /\ ~Last(calls[p]).ok
  /\ \A i \in 1..(Len(calls[p]) - 1) : calls[p][i].ok

\* The invocation raised and returned nothing.
Raised(p) == status[p] = "raised" /\ ret[p] = <<>>

\* The realtime error path: the invocation returned the date accumulated
\* over the pages it had processed to the end.
ReturnedProgress(p) ==
  status[p] = "returned" /\ ret[p] = <<LastDateOf(CompletedFetches(p))>>

\* C14 as stated: an enqueue failure raises in every entry point and mode.
C14_Original ==
  \A p \in Procs : err[p] = "enqueue" => EndedOn(p, "enqueue") /\ Raised(p)

\* C14 amended: an enqueue failure ends the invocation at once; it raises in
\* the cursor-mode entry points and in offset-mode backfill, and in realtime
\* offset mode the invocation returns the date accumulated before the page.
C14_EnqueueFailure ==
  \A p \in Procs :
    err[p] = "enqueue" =>
      /\ EndedOn(p, "enqueue")
      /\ IF OpenSea(p) /\ ~args[p].backfill THEN ReturnedProgress(p) ELSE Raised(p)

\* C14 witness: a realtime sync that ended on the failed enqueue of its
\* second page by returning the date of its first.
C14_Witness ==
  \E p \in Procs :
    /\ OpenSea(p) /\ ~args[p].backfill /\ err[p] = "enqueue"
    /\ Len(Fetches(p)) = 2
    /\ status[p] = "returned" /\ ret[p] # <<<<>>>>

\* C15: a failed bulk insert ends the invocation as a failed fetch of the
\* same page would: realtime offset mode returns the date accumulated before
\* the page, offset-mode backfill and the cursor-mode entry points raise; the
\* failed insert is the last call, so it is not retried.
C15_InsertFailure ==
  \A p \in Procs :
    /\ err[p] = "insert" =>
         /\ EndedOn(p, "insert")
         /\ IF OpenSea(p) /\ ~args[p].backfill THEN ReturnedProgress(p) ELSE Raised(p)
    /\ err[p] = "fetch" =>
         /\ EndedOn(p, "fetch")
         /\ IF OpenSea(p) /\ ~args[p].backfill THEN ReturnedProgress(p) ELSE Raised(p)
    /\ Len(CallsOf(calls[p], "insert")) <= Len(OkFetches(p))

\* C15 witness: a realtime sync that returned the date of its first page when
\* the insert of its second page failed.
C15_Witness ==
  \E p \in Procs :
    /\ OpenSea(p) /\ ~args[p].backfill /\ ~args[p].once /\ err[p] = "insert"
    /\ Len(CallsOf(calls[p], "insert")) = 2
    /\ status[p] = "returned" /\ ret[p] # <<<<>>>>


\* The calls an invocation issued for the page of the fetch at index i of its
\* call record: those up to its next fetch.
PageCallsAt(cs, i) ==
  LET at == SelectSeq([j \in DOMAIN cs |-> j],
                      LAMBDA j : j > i /\ \A k \in (i + 1)..j : cs[k].op # "fetch")
  IN [j \in DOMAIN at |-> cs[at[j]]]

\* The orders a marketplace returned to a request of invocation p.
RawPageOf(p, req) ==
  IF OpenSea(p) THEN RawOpenSeaPage(req)
  ELSE SeaportPage(upstream, req.cursor, req.limit)

\* The orders of a page whose parse succeeds, in page order.
ParsedOf(p, page) == SelectSeq(page, LAMBDA o : Parsed(p, o) # <<>>)

\* The invocation is through with the page of the fetch at index i: it went
\* on to the next fetch, to its inter-page delay or to its return.
PageOver(p, i) ==
  \/ \E j \in (i + 1)..Len(calls[p]) : calls[p][j].op = "fetch"
  \/ pc[p] \in {"fetch", "sleep"}
  \/ pc[p] = "done" /\ err[p] = "none"

\* C16: for every page fetched, at most one insert and at most one enqueue
\* are issued; an insert is issued only for a non-empty row batch (one row
\* per order) and an enqueue only for a non-empty batch of parsed orders, and
\* once the invocation is through with the page each non-empty batch was
\* submitted; an empty page causes neither call.  No insert or enqueue is
\* issued outside the processing of a fetched page.
C16_OneWritePerPage ==
  \A p \in Procs :
    LET cs == calls[p] IN
    /\ \A j \in DOMAIN cs :
         cs[j].op \in {"insert", "enqueue"} =>
           \E i \in 1..(j - 1) : cs[i].op = "fetch" /\ cs[i].ok
    /\ \A i \in DOMAIN cs :
         (cs[i].op = "fetch" /\ cs[i].ok) =>
           LET seg == PageCallsAt(cs, i)
               ins == CallsOf(seg, "insert")
               enq == CallsOf(seg, "enqueue")
               rows == Len(RawPageOf(p, cs[i].req))
               parsed == Len(ParsedOf(p, RawPageOf(p, cs[i].req)))
           IN /\ Len(ins) <= 1 /\ Len(enq) <= 1
              /\ (ins # <<>> => rows > 0 /\ ins[1].n = rows)
              /\ (enq # <<>> => parsed > 0 /\ enq[1].n = parsed)
              /\ PageOver(p, i) => /\ (rows > 0 => ins # <<>>)
                                   /\ (parsed > 0 => enq # <<>>)

\* C16 witness: an invocation that returned after a page of one order that
\* does not parse, for which it issued an insert and no enqueue.
C16_Witness ==
  \E p \in Procs :
    /\ status[p] = "returned" /\ err[p] = "none"
    /\ \E i \in DOMAIN calls[p] :
         /\ calls[p][i].op = "fetch" /\ calls[p][i].n > 0
         /\ ParsedOf(p, RawPageOf(p, calls[p][i].req)) = <<>>
         /\ CallsOf(PageCallsAt(calls[p], i), "insert") # <<>>
         /\ CallsOf(PageCallsAt(calls[p], i), "enqueue") = <<>>


\* C17 as stated, in the form a finite run refutes: a drain none of whose
\* calls fails runs to its return.  The loop is deterministic and the
\* upstream does not change, so a drain that returns is never twice at a
\* fetch with the same cursor unless it inserted a row in between: from a
\* repeated loop state it repeats the same steps for ever.
C17_DrainTerminates ==
  \A p \in Procs :
    (Seaport(p) /\ \A i \in DOMAIN calls[p] : calls[p][i].ok) =>
      \A i, j \in DOMAIN calls[p] :
        (/\ i < j
         /\ calls[p][i].op = "fetch" /\ calls[p][j].op = "fetch"
         /\ calls[p][i].req.cursor = calls[p][j].req.cursor)
        => \E k \in (i + 1)..(j - 1) : calls[p][k].op = "insert" /\ calls[p][k].new > 0


\* C18 as stated: when a drain raised after it had persisted rows and the
\* drain invoked again returned, the store holds a row for every order the
\* marketplace lists.
C18_Recovery ==
  (/\ Seaport(1) /\ status[1] = "raised"
   /\ \E i \in DOMAIN calls[1] :
        calls[1][i].op = "insert" /\ calls[1][i].ok /\ calls[1][i].new > 0
   /\ Seaport(2) /\ status[2] = "returned")
  => \A i \in 1..upstream.seaport :
       ToLowerCase(SeaportOrderAt(i).order_hash) \in {r.hash : r \in store}


\* C19: an offset-mode backfill from offset 0 over a listing of N orders with
\* pages of L, none of whose calls fails, can always take its next step
\* until it ends; it ends by returning, after exactly N \div L + 1 fetches,
\* and the store then holds a row for each of the N orders.
C19_BackfillCompletes ==
  \A p \in Procs :
    (/\ OpenSea(p) /\ args[p].backfill /\ ~args[p].once /\ args[p].offset = 0
     /\ \A i \in DOMAIN calls[p] : calls[p][i].ok)
    => LET N == upstream.wyvern
           L == args[p].limit
       IN /\ Len(Fetches(p)) <= (N \div L) + 1
          /\ (pc[p] # "done" => ENABLED OpenSeaStep(p))
          /\ pc[p] = "done" =>
               /\ status[p] = "returned"
               /\ Len(Fetches(p)) = (N \div L) + 1
               /\ \A i \in 1..N :
                    OpenSeaOrderAt(i).prefixed_hash \in {r.hash : r \in store}

\* C19 witness: a backfill over a listing of exactly one full page that
\* fetched the page, then an empty one, and returned with both orders stored.
C19_Witness ==
  \E p \in Procs :
    /\ OpenSea(p) /\ args[p].backfill /\ ~args[p].once /\ args[p].offset = 0
    /\ upstream.wyvern = args[p].limit
    /\ status[p] = "returned" /\ err[p] = "none"
    /\ Len(Fetches(p)) = 2 /\ Fetches(p)[2].n = 0
    /\ Cardinality(store) = upstream.wyvern


\* The envelope of a raw order whose parse succeeds.
EnvelopeOf(p, o) ==
  IF OpenSea(p) THEN OpenSeaEnvelopes(Parsed(p, o))[1]
  ELSE SeaportEnvelopes(Parsed(p, o))[1]

\* The fetches of an invocation whose page it enqueued.
EnqueuedPages(p) ==
  {i \in DOMAIN calls[p] :
     /\ calls[p][i].op = "fetch" /\ calls[p][i].ok
     /\ CallsOf(PageCallsAt(calls[p], i), "enqueue") # <<>>
     /\ CallsOf(PageCallsAt(calls[p], i), "enqueue")[1].ok}

\* C20: whatever its insert returned, a page the invocation is through with
\* was enqueued if any of its orders parsed, and the queue holds an order's
\* envelope once for every page holding the order that an invocation
\* enqueued: nothing is left out or deduplicated on the store's account.
C20_EnqueueIndependent ==
  LET pages == UNION {{<<p, i, {EnvelopeOf(p, o) :
                                   o \in Range(ParsedOf(p, RawPageOf(p, calls[p][i].req)))}>> :
                         i \in EnqueuedPages(p)} : p \in Procs}
      times(e) == Cardinality({t \in pages : e \in t[3]})
  IN /\ \A p \in Procs : \A i \in DOMAIN calls[p] :
          (/\ calls[p][i].op = "fetch" /\ calls[p][i].ok /\ PageOver(p, i)
           /\ ParsedOf(p, RawPageOf(p, calls[p][i].req)) # <<>>)
          => i \in EnqueuedPages(p)
     /\ \A e \in BagToSet(queue) : CopiesIn(e, queue) = times(e)
     /\ \A t \in pages : t[3] \subseteq BagToSet(queue)

\* C20 witness: a drain run to its end twice over a listing of one order: the
\* order was inserted once and enqueued three times, the last time by the
\* re-run, whose only insert returned no row.
C20_Witness ==
  /\ Seaport(1) /\ CleanRun(1) /\ Seaport(2) /\ CleanRun(2)
  /\ Len(Fetches(2)) = 1 /\ CaughtUp(2)
  /\ Cardinality(store) = 1
  /\ \E e \in BagToSet(queue) : CopiesIn(e, queue) = 3

====
